---- MODULE Spec2Model ----
(***************************************************************************)
(* Model of the espressia extraction analytics engine:                     *)
(*   simulation.rs        ExtractionMetrics, simulate_extraction           *)
(*   analytics/alerts.rs  AlertGenerator                                   *)
(*   analytics/trends.rs  ExtractionTrends                                 *)
(*                                                                         *)
(* f64 values are modelled as exact fractions [n, d] in lowest terms with  *)
(* d >= 0; d = 0 /\ n = 0 is NaN and d = 0 /\ n # 0 is an infinity.  The   *)
(* input grids below only hold values for which the exact result and the   *)
(* IEEE-754 result of the code's expressions truncate to the same integer. *)
(***************************************************************************)
EXTENDS Integers, Sequences, FiniteSets, TLC

VARIABLES rules, metrics, origin, score, good, recommendations, alerts, history, trends, stage,
          db, clock, request, response

\* the store and the latest request to it
storeVars == <<db, clock, request, response>>

vars == <<rules, metrics, origin, score, good, recommendations, alerts, history, trends, stage,
          storeVars>>

(* ------------------------------ bounds --------------------------------- *)

\* largest wall-clock reading (seconds) handed out to a record or an alert
MaxTimestamp == 1

\* number of distinct identifiers Uuid::new_v4 may return
MaxUuid == 2

\* longest history handed to ExtractionTrends::calculate
MaxHist == 4

Timestamps == 0..MaxTimestamp

Uuids == 1..MaxUuid

(* ------------------------------ f64 ------------------------------------ *)

Abs(i) == IF i < 0 THEN -i ELSE i

RECURSIVE Gcd(_, _)
Gcd(a, b) == IF b = 0 THEN a ELSE Gcd(b, a % b)

Sign(i) == IF i < 0 THEN -1 ELSE IF i > 0 THEN 1 ELSE 0

\* the f64 n/d, in lowest terms
Rat(n, d) ==
    IF d = 0 THEN [n |-> Sign(n), d |-> 0]
    ELSE LET g == Gcd(Abs(n), Abs(d))
             s == IF d < 0 THEN -1 ELSE 1
         IN  [n |-> s * (n \div g), d |-> s * (d \div g)]

F(i) == Rat(i, 1)

NaN == [n |-> 0, d |-> 0]

IsNaN(x) == x.d = 0 /\ x.n = 0

FLt(a, b) == ~IsNaN(a) /\ ~IsNaN(b) /\ a.n * b.d < b.n * a.d

FLe(a, b) == ~IsNaN(a) /\ ~IsNaN(b) /\ a.n * b.d <= b.n * a.d

FGt(a, b) == FLt(b, a)

FAdd(a, b) ==
    IF IsNaN(a) \/ IsNaN(b) THEN NaN ELSE Rat(a.n * b.d + b.n * a.d, a.d * b.d)

FSub(a, b) ==
    IF IsNaN(a) \/ IsNaN(b) THEN NaN ELSE Rat(a.n * b.d - b.n * a.d, a.d * b.d)

FMul(a, b) ==
    IF IsNaN(a) \/ IsNaN(b) THEN NaN ELSE Rat(a.n * b.n, a.d * b.d)

FDiv(a, b) ==
    IF IsNaN(a) \/ IsNaN(b) THEN NaN ELSE Rat(a.n * b.d, a.d * b.n)

\* (lo..=hi).contains(&x)
Contains(lo, hi, x) == FLe(lo, x) /\ FLe(x, hi)

\* a cast that truncates toward zero and keeps the sign and the magnitude
AsU8_signed(x) ==
    IF IsNaN(x) \/ x.d = 0 THEN 0
    ELSE IF x.n < 0 THEN -((-x.n) \div x.d)
    ELSE x.n \div x.d

\* `x as u8`: truncation toward zero, saturating at 0 and 255, NaN to 0
AsU8(x) ==
    IF IsNaN(x) THEN 0
    ELSE IF x.d = 0 THEN (IF x.n > 0 THEN 255 ELSE 0)
    ELSE IF x.n < 0 THEN 0
    ELSE LET q == x.n \div x.d IN IF q > 255 THEN 255 ELSE q

(* --------------------------- simulation.rs ----------------------------- *)

PERFECT_TEMP_MIN == F(90)

PERFECT_TEMP_MAX == F(96)

PERFECT_PRESS_MIN == F(8)

PERFECT_PRESS_MAX == F(10)

PERFECT_TIME_MIN == 20

PERFECT_TIME_MAX == 30

CoffeeType == {"Arabica", "Robusta", "Blend", "SingleOrigin"}

CoffeeType_default == "Arabica"

RoastLevel == {"Light", "Medium", "Dark", "ExtraDark"}

RoastLevel_default == "Medium"

GrindSize == {"Coarse", "Medium", "Fine"}

GrindSize_default == "Medium"

\* Option<T>: <<>> is None, <<x>> is Some(x)
Option(S) == {<<>>} \cup {<<x>> : x \in S}

unwrap_or(o, dflt) == IF o = <<>> THEN dflt ELSE o[1]

\* is_perfect with the upper ends of the three ranges left out
is_perfect_exclusive(self) ==
    /\ FLe(PERFECT_TEMP_MIN, self.temperature) /\ FLt(self.temperature, PERFECT_TEMP_MAX)
    /\ FLe(PERFECT_PRESS_MIN, self.pressure) /\ FLt(self.pressure, PERFECT_PRESS_MAX)
    /\ PERFECT_TIME_MIN <= self.time_seconds
    /\ self.time_seconds < PERFECT_TIME_MAX

is_perfect(self) ==
    /\ Contains(PERFECT_TEMP_MIN, PERFECT_TEMP_MAX, self.temperature)
    /\ Contains(PERFECT_PRESS_MIN, PERFECT_PRESS_MAX, self.pressure)
    /\ PERFECT_TIME_MIN <= self.time_seconds
    /\ self.time_seconds <= PERFECT_TIME_MAX

\* is_good that keeps only its first disjunct
is_good_needs_time(self) == is_perfect(self)

is_good(self) ==
    \/ is_perfect(self)
    \/ /\ Contains(PERFECT_TEMP_MIN, PERFECT_TEMP_MAX, self.temperature)
       /\ Contains(PERFECT_PRESS_MIN, PERFECT_PRESS_MAX, self.pressure)
    \/ /\ Contains(PERFECT_TEMP_MIN, PERFECT_TEMP_MAX, self.temperature)
       /\ Contains(PERFECT_PRESS_MIN, PERFECT_PRESS_MAX, self.pressure)
       /\ PERFECT_TIME_MIN <= self.time_seconds
       /\ self.time_seconds <= PERFECT_TIME_MAX

\* the points of one dimension: 30 in range, a truncated fraction of 30 outside
dimension_score(min, max, value) ==
    IF Contains(min, max, value) THEN 30
    ELSE IF FLt(value, min)
         THEN AsU8(FMul(F(30), FSub(F(1), FDiv(value, min))))
         ELSE AsU8(FMul(F(30), FDiv(FSub(max, value), FSub(max, min))))

temp_score(self) ==
    dimension_score(PERFECT_TEMP_MIN, PERFECT_TEMP_MAX, self.temperature)

press_score(self) ==
    dimension_score(PERFECT_PRESS_MIN, PERFECT_PRESS_MAX, self.pressure)

time_score(self) ==
    dimension_score(F(PERFECT_TIME_MIN), F(PERFECT_TIME_MAX), F(self.time_seconds))

coffee_roast_bonus(self) ==
    IF \/ self.coffee_type = "Arabica" /\ self.roast_level = "Medium"
       \/ self.coffee_type = "Robusta" /\ self.roast_level = "Dark"
       \/ self.coffee_type = "Blend" /\ self.roast_level = "Medium"
       \/ self.coffee_type = "SingleOrigin" /\ self.roast_level = "Light"
    THEN 5 ELSE 0

\* the grind bonus worth 10 points
grind_bonus_double(self) ==
    IF \/ self.grind_size = "Coarse" /\ self.time_seconds < 20
       \/ self.grind_size = "Medium" /\ self.time_seconds >= 20 /\ self.time_seconds <= 30
       \/ self.grind_size = "Fine" /\ self.time_seconds > 30
    THEN 10 ELSE 0

grind_bonus(self) ==
    IF \/ self.grind_size = "Coarse" /\ self.time_seconds < 20
       \/ self.grind_size = "Medium" /\ self.time_seconds >= 20 /\ self.time_seconds <= 30
       \/ self.grind_size = "Fine" /\ self.time_seconds > 30
    THEN 5 ELSE 0

bonus(self) == coffee_roast_bonus(self) + grind_bonus(self)

\* the sum of line 148 before it is stored in a u8
final_score(self) ==
    (temp_score(self) + press_score(self) + time_score(self)) + bonus(self)

\* the outcome of a u8 addition that does not fit: the call aborts
Panic == -1

\* u8 arithmetic: with overflow checks the sum panics, without it wraps
calculate_quality_score(self, overflow_checks) ==
    IF final_score(self) > 255
    THEN (IF overflow_checks THEN Panic ELSE final_score(self) % 256)
    ELSE final_score(self)

\* Display of an f64 holding a whole number: "90", not "90.0"
FmtF64(x) == ToString(x.n)

temperature_recommendation(self) ==
    IF FLt(self.temperature, PERFECT_TEMP_MIN)
    THEN <<"Increase temperature to " \o FmtF64(PERFECT_TEMP_MIN) \o " degrees">>
    ELSE IF FGt(self.temperature, PERFECT_TEMP_MAX)
    THEN <<"Decrease temperature to " \o FmtF64(PERFECT_TEMP_MAX) \o " degrees">>
    ELSE <<>>

pressure_recommendation(self) ==
    IF FLt(self.pressure, PERFECT_PRESS_MIN)
    THEN <<"Increase pressure to " \o FmtF64(PERFECT_PRESS_MIN) \o " psi">>
    ELSE IF FGt(self.pressure, PERFECT_PRESS_MAX)
    THEN <<"Decrease pressure to " \o FmtF64(PERFECT_PRESS_MAX) \o " psi">>
    ELSE <<>>

time_recommendation(self) ==
    IF self.time_seconds < PERFECT_TIME_MIN
    THEN <<"Increase extraction time to " \o ToString(PERFECT_TIME_MIN) \o " seconds">>
    ELSE IF self.time_seconds > PERFECT_TIME_MAX
    THEN <<"Decrease extraction time to " \o ToString(PERFECT_TIME_MAX) \o " seconds">>
    ELSE <<>>

grind_recommendation(self) ==
    IF self.grind_size = "Fine" /\ self.time_seconds > 30
    THEN <<"Consider using a coarser grind size for better extraction">>
    ELSE IF self.grind_size = "Coarse" /\ self.time_seconds < 20
    THEN <<"Consider using a finer grind size for better extraction">>
    ELSE <<>>

roast_recommendation(self) ==
    IF self.coffee_type = "Arabica" /\ self.roast_level = "Medium"
    THEN <<"Consider using a lighter roast for a more delicate flavor">>
    ELSE IF self.coffee_type = "Robusta" /\ self.roast_level = "Dark"
    THEN <<"Consider using a medium roast for a balanced flavor">>
    ELSE IF self.coffee_type = "Blend" /\ self.roast_level = "Medium"
    THEN <<"Consider using a dark roast for a bolder flavor">>
    ELSE IF self.coffee_type = "SingleOrigin" /\ self.roast_level = "Light"
    THEN <<"Consider using a medium roast for a more balanced flavor">>
    ELSE <<>>

\* the recommendations with the pressure check made first
generate_recommendations_pressure_first(self) ==
    pressure_recommendation(self) \o temperature_recommendation(self)
        \o time_recommendation(self) \o grind_recommendation(self)
        \o roast_recommendation(self)

generate_recommendations(self) ==
    temperature_recommendation(self) \o pressure_recommendation(self)
        \o time_recommendation(self) \o grind_recommendation(self)
        \o roast_recommendation(self)

\* a struct literal of ExtractionMetrics with its derived fields left empty
ExtractionMetrics(ts, temp, press, time, coffee, roast, grind, rate) ==
    [timestamp |-> ts,
     temperature |-> temp,
     pressure |-> press,
     time_seconds |-> time,
     water_volume_oz |-> F(8),
     coffee_type |-> coffee,
     roast_level |-> roast,
     grind_size |-> grind,
     result |-> "",
     extraction_time |-> F(0),
     perfect_extraction_rate |-> rate,
     quality_score |-> 0,
     recommendations |-> <<>>]

\* the intermediate record `metrics` of simulate_extraction; now is the
\* reading of SystemTime::now()
raw_metrics(now, temperature, pressure, time_seconds, coffee_type, roast_level, grind_size) ==
    ExtractionMetrics(now,
                      unwrap_or(temperature, Rat(986, 10)),
                      unwrap_or(pressure, Rat(101325, 100)),
                      unwrap_or(time_seconds, 60),
                      unwrap_or(coffee_type, CoffeeType_default),
                      unwrap_or(roast_level, RoastLevel_default),
                      unwrap_or(grind_size, GrindSize_default),
                      F(0))

\* the record simulate_extraction returns: quality_score and recommendations
\* are computed into locals, only result is written over the intermediate record
simulate_extraction(now, temperature, pressure, time_seconds, coffee_type, roast_level, grind_size) ==
    LET m == raw_metrics(now, temperature, pressure, time_seconds,
                         coffee_type, roast_level, grind_size)
    IN  [m EXCEPT !.result = IF is_perfect(m) THEN "Perfect Extraction"
                                              ELSE "Suboptimal Extraction"]

(* ------------------------- analytics/alerts.rs ------------------------- *)

AlertSeverity == {"Info", "Warning", "Critical"}

AlertCategory == {"ExtractionQuality", "ParameterDeviation", "PerformanceTrend", "SystemHealth"}

\* id is the value of Uuid::new_v4(), now the reading of Utc::now()
low_perfection_rate_rule(m, id, now) ==
    IF FLt(m.perfect_extraction_rate, Rat(4, 10))
    THEN <<[id |-> id,
            timestamp |-> now,
            severity |-> "Warning",
            category |-> "ExtractionQuality",
            message |-> "Low perfect extraction rate detected.",
            metadata |-> [key |-> "perfect_rate", value |-> m.perfect_extraction_rate]]>>
    ELSE <<>>

\* the temperature rule without its upper limit
temperature_deviation_rule_low_only(m, id, now) ==
    IF FLt(m.temperature, F(90))
    THEN <<[id |-> id,
            timestamp |-> now,
            severity |-> "Critical",
            category |-> "ParameterDeviation",
            message |-> "Temperature outside acceptable range",
            metadata |-> [key |-> "temperature", value |-> m.temperature]]>>
    ELSE <<>>

temperature_deviation_rule(m, id, now) ==
    IF FLt(m.temperature, F(90)) \/ FGt(m.temperature, F(96))
    THEN <<[id |-> id,
            timestamp |-> now,
            severity |-> "Critical",
            category |-> "ParameterDeviation",
            message |-> "Temperature outside acceptable range",
            metadata |-> [key |-> "temperature", value |-> m.temperature]]>>
    ELSE <<>>

pressure_instability_rule(m, id, now) ==
    IF FLt(m.pressure, F(8)) \/ FGt(m.pressure, F(10))
    THEN <<[id |-> id,
            timestamp |-> now,
            severity |-> "Warning",
            category |-> "ParameterDeviation",
            message |-> "Pressure outside stable range",
            metadata |-> [key |-> "pressure", value |-> m.pressure]]>>
    ELSE <<>>

\* the rule table built by AlertGenerator::new, by rule name
AlertGenerator_new ==
    <<"Low Perfect Extraction Rate", "Temperature Deviation", "Pressure Instability">>

\* (rule.condition)(metrics) of the rule with this name
condition(name, m, id, now) ==
    CASE name = "Low Perfect Extraction Rate" -> low_perfection_rate_rule(m, id, now)
      [] name = "Temperature Deviation" -> temperature_deviation_rule(m, id, now)
      [] name = "Pressure Instability" -> pressure_instability_rule(m, id, now)

\* rules.iter().filter_map(..).collect() from rule i on; ids[i] is the
\* identifier drawn while rule i is evaluated
RECURSIVE filter_map(_, _, _, _, _)
filter_map(rs, i, m, ids, now) ==
    IF i > Len(rs) THEN <<>>
    ELSE condition(rs[i], m, ids[i], now) \o filter_map(rs, i + 1, m, ids, now)

generate_alerts(rs, m, ids, now) == filter_map(rs, 1, m, ids, now)

(* ------------------------- analytics/trends.rs ------------------------- *)

TrendPeriod == {"Daily", "Weekly", "Monthly", "Yearly"}

TrendDirection == {"Improving", "Stable", "Declining"}

\* metrics.iter().filter(|m| is_perfect).count()
perfect_count(ms) == Cardinality({i \in 1..Len(ms) : is_perfect(ms[i])})

good_count(ms) == Cardinality({i \in 1..Len(ms) : is_good(ms[i])})

suboptimal_count(ms) ==
    Cardinality({i \in 1..Len(ms) : ~is_perfect(ms[i]) /\ ~is_good(ms[i])})

calculate_perfect_extraction_rate(ms) ==
    FMul(FDiv(F(perfect_count(ms)), F(Len(ms))), F(100))

\* metrics.iter().map(|m| field).sum() from element i on
RECURSIVE sum_temperature(_, _)
sum_temperature(ms, i) ==
    IF i > Len(ms) THEN F(0) ELSE FAdd(ms[i].temperature, sum_temperature(ms, i + 1))

RECURSIVE sum_pressure(_, _)
sum_pressure(ms, i) ==
    IF i > Len(ms) THEN F(0) ELSE FAdd(ms[i].pressure, sum_pressure(ms, i + 1))

RECURSIVE sum_extraction_time(_, _)
sum_extraction_time(ms, i) ==
    IF i > Len(ms) THEN F(0)
    ELSE FAdd(ms[i].extraction_time, sum_extraction_time(ms, i + 1))

calculate_average_metrics(ms) ==
    LET total == F(Len(ms))
    IN  IF total = F(0)
        THEN [temperature |-> F(0), pressure |-> F(0), extraction_time |-> F(0)]
        ELSE [temperature |-> FDiv(sum_temperature(ms, 1), total),
              pressure |-> FDiv(sum_pressure(ms, 1), total),
              extraction_time |-> FDiv(sum_extraction_time(ms, 1), total)]

\* the direction with its thresholds taken inclusively
calculate_trend_direction_ge(ms) ==
    LET perfect_rate == calculate_perfect_extraction_rate(ms)
    IN  IF FLe(F(75), perfect_rate) THEN "Improving"
        ELSE IF FLe(F(50), perfect_rate) THEN "Stable"
        ELSE "Declining"

calculate_trend_direction(ms) ==
    LET perfect_rate == calculate_perfect_extraction_rate(ms)
    IN  IF FGt(perfect_rate, F(75)) THEN "Improving"
        ELSE IF FGt(perfect_rate, F(50)) THEN "Stable"
        ELSE "Declining"

\* the distribution with perfect readings kept out of the good bucket
calculate_quality_distribution_exclusive(ms) ==
    [perfect |-> perfect_count(ms),
     good |-> good_count(ms) - perfect_count(ms),
     suboptimal |-> suboptimal_count(ms)]

calculate_quality_distribution(ms) ==
    [perfect |-> perfect_count(ms),
     good |-> good_count(ms),
     suboptimal |-> suboptimal_count(ms)]

calculate(ms, period) ==
    [period |-> period,
     perfect_extraction_rate |-> calculate_perfect_extraction_rate(ms),
     avg_metrics |-> calculate_average_metrics(ms),
     trend_direction |-> calculate_trend_direction(ms),
     quality_distribution |-> calculate_quality_distribution(ms)]

(* ------------------------------ inputs --------------------------------- *)

TempGrid == {F(-1000), F(0), F(45), F(88), F(90), F(92), F(96), F(100), NaN}

PressGrid == {F(4), F(7), F(8), F(9), F(10), F(12)}

TimeGrid == {0, 15, 20, 25, 30, 35}

RateGrid == {F(0), Rat(39, 100), Rat(4, 10), F(1), NaN}

\* the readings that are accumulated into a history
HistTemp == {F(92), F(100)}

HistTime == {25, 35}

(* ------------------------------ state ---------------------------------- *)

\* rules     the rule table of the AlertGenerator
\* metrics   the current reading, origin how it was made
\* score     Some(result of calculate_quality_score on the current reading)
\* good      the result of is_good on the current reading
\* recommendations  Some(result of generate_recommendations on the current reading)
\* alerts    the result of generate_alerts on the current reading
\* history   the accumulated readings
\* trends    the summary of the current history, NoTrends when none is computed
\* stage     the operation that acted last
\* db        the sled store: a function from the keys in use to the stored bytes
\* clock     the reading of Utc::now().timestamp_millis()
\* request   the parameters of the latest start_extraction request
\* response  the result of the latest store operation

\* no record yet
NoMetrics == [none |-> "metrics"]

NoTrends == [none |-> "trends"]

NoRequest == [none |-> "request"]

NoResponse == [none |-> "response"]

Init ==
    /\ rules = AlertGenerator_new
    /\ metrics = NoMetrics
    /\ origin = "none"
    /\ score = <<>>
    /\ good = FALSE
    /\ recommendations = <<>>
    /\ alerts = <<>>
    /\ history = <<>>
    /\ trends = NoTrends
    /\ stage = "init"
    /\ db = <<>>
    /\ clock = 0
    /\ request = NoRequest
    /\ response = NoResponse

\* The operations are pure: a behaviour follows one reading through the
\* engine, from its creation to its score, its class or its alerts.

\* a call of simulate_extraction with the bean parameters drawn from the given
\* sets; it aborts when its quality score overflows under overflow checks,
\* and then returns nothing
Simulate(coffees, roasts, grinds) ==
    /\ stage = "init"
    /\ \E now \in Timestamps, temperature \in Option(TempGrid), pressure \in Option(PressGrid),
          time_seconds \in Option(TimeGrid), coffee_type \in coffees,
          roast_level \in roasts, grind_size \in grinds, overflow_checks \in BOOLEAN :
        LET m == raw_metrics(now, temperature, pressure, time_seconds,
                             coffee_type, roast_level, grind_size)
        IN  IF calculate_quality_score(m, overflow_checks) = Panic
            THEN /\ stage' = "panicked"
                 /\ metrics' = NoMetrics
                 /\ origin' = "none"
            ELSE /\ stage' = "simulated"
                 /\ metrics' = simulate_extraction(now, temperature, pressure, time_seconds,
                                                   coffee_type, roast_level, grind_size)
                 /\ origin' = "simulate_extraction"
    /\ score' = <<>>
    /\ good' = FALSE
    /\ recommendations' = <<>>
    /\ alerts' = <<>>
    /\ UNCHANGED <<rules, history, trends, storeVars>>

SimulateExtraction == Simulate(Option(CoffeeType), Option(RoastLevel), Option(GrindSize))

\* simulate_extraction called with coffee_type, roast_level and grind_size None
SimulateDefaultBeans == Simulate({<<>>}, {<<>>}, {<<>>})

\* a record written as a struct literal, as the unit tests do
MetricsLiteral ==
    /\ stage = "init"
    /\ \E temperature \in TempGrid, pressure \in PressGrid, time_seconds \in TimeGrid,
       perfect_extraction_rate \in RateGrid :
        metrics' = ExtractionMetrics(0, temperature, pressure, time_seconds,
                                     "Arabica", "Medium", "Medium", perfect_extraction_rate)
    /\ origin' = "literal"
    /\ stage' = "constructed"
    /\ score' = <<>>
    /\ good' = FALSE
    /\ recommendations' = <<>>
    /\ alerts' = <<>>
    /\ UNCHANGED <<rules, history, trends, storeVars>>

\* metrics.calculate_quality_score() on the current record
CalculateQualityScore ==
    /\ stage \in {"simulated", "constructed"}
    /\ \E overflow_checks \in BOOLEAN :
        LET q == calculate_quality_score(metrics, overflow_checks)
        IN  /\ score' = <<q>>
            /\ stage' = IF q = Panic THEN "panicked" ELSE "scored"
    /\ UNCHANGED <<rules, metrics, origin, good, recommendations, alerts, history, trends, storeVars>>

\* metrics.is_good() on the current record
IsGood ==
    /\ stage \in {"simulated", "constructed"}
    /\ good' = is_good(metrics)
    /\ stage' = "classified"
    /\ UNCHANGED <<rules, metrics, origin, score, recommendations, alerts, history, trends, storeVars>>

\* metrics.generate_recommendations() on the current record
GenerateRecommendations ==
    /\ stage \in {"simulated", "constructed"}
    /\ recommendations' = <<generate_recommendations(metrics)>>
    /\ stage' = "recommended"
    /\ UNCHANGED <<rules, metrics, origin, score, good, alerts, history, trends, storeVars>>

\* generator.generate_alerts(&metrics) on the current record
GenerateAlerts ==
    /\ stage \in {"simulated", "constructed"}
    /\ \E now \in Timestamps, ids \in [1..Len(rules) -> Uuids] :
        alerts' = generate_alerts(rules, metrics, ids, now)
    /\ stage' = "alerted"
    /\ UNCHANGED <<rules, metrics, origin, score, good, recommendations, history, trends, storeVars>>

\* a reading is made, then scored or classified
Next ==
    \/ SimulateExtraction
    \/ MetricsLiteral
    \/ CalculateQualityScore
    \/ IsGood
    \/ GenerateRecommendations

Spec == Init /\ [][Next]_vars

\* a reading is made, then handed to the alert generator
AlertNext ==
    \/ SimulateDefaultBeans
    \/ MetricsLiteral
    \/ GenerateAlerts

AlertSpec == Init /\ [][AlertNext]_vars

\* a reading is simulated and appended to the accumulated history; the
\* readings are taken one second apart
RecordReading ==
    /\ Len(history) < MaxHist
    /\ \E temperature \in HistTemp, time_seconds \in HistTime :
        history' = Append(history,
                          simulate_extraction(Len(history), <<temperature>>, <<F(9)>>,
                                              <<time_seconds>>, <<>>, <<>>, <<>>))
    /\ trends' = NoTrends
    /\ stage' = "recorded"
    /\ UNCHANGED <<rules, metrics, origin, score, good, recommendations, alerts, storeVars>>

\* ExtractionTrends::calculate(&history, period)
CalculateTrends ==
    /\ \E period \in TrendPeriod : trends' = calculate(history, period)
    /\ stage' = "calculated"
    /\ UNCHANGED <<rules, metrics, origin, score, good, recommendations, alerts, history, storeVars>>

TrendNext == RecordReading \/ CalculateTrends

TrendSpec == Init /\ [][TrendNext]_vars

(* ------------------ analytics/repository.rs and api.rs ------------------ *)

\* Result<T, E>
Ok(v) == [ok |-> TRUE, value |-> v]

Err(e) == [ok |-> FALSE, error |-> e]

ApiError(message, status) == [status |-> status, message |-> message]

\* serde_json writes a non-finite f64 as the JSON value null
JsonNull == [null |-> TRUE]

JsonF64(x) == IF IsNaN(x) \/ x.d = 0 THEN JsonNull ELSE x

\* serde_json::to_vec of each record type: the JSON object of the type's
\* fields; the model keeps the type whose fields the object has
to_vec_alert(a) ==
    [type |-> "Alert", body |-> [a EXCEPT !.metadata.value = JsonF64(@)]]

to_vec_trends(t) ==
    [type |-> "ExtractionTrends",
     body |-> [t EXCEPT !.perfect_extraction_rate = JsonF64(@),
                        !.avg_metrics.temperature = JsonF64(@),
                        !.avg_metrics.pressure = JsonF64(@),
                        !.avg_metrics.extraction_time = JsonF64(@)]]

to_vec_metrics(m) ==
    [type |-> "ExtractionMetrics",
     body |-> [m EXCEPT !.temperature = JsonF64(@),
                        !.pressure = JsonF64(@),
                        !.water_volume_oz = JsonF64(@),
                        !.extraction_time = JsonF64(@),
                        !.perfect_extraction_rate = JsonF64(@)]]

\* the f64 fields a type requires when it is read back
required_f64(type, body) ==
    CASE type = "Alert" -> {}
      [] type = "ExtractionTrends" ->
            {body.perfect_extraction_rate, body.avg_metrics.temperature,
             body.avg_metrics.pressure, body.avg_metrics.extraction_time}
      [] type = "ExtractionMetrics" ->
            {body.temperature, body.pressure, body.water_volume_oz,
             body.extraction_time, body.perfect_extraction_rate}

\* serde_json::from_slice::<type>(bytes): an object of another type misses
\* required fields, and null is not an f64
from_slice(type, bytes) ==
    IF bytes.type = type /\ JsonNull \notin required_f64(type, bytes.body)
    THEN Ok(bytes.body)
    ELSE Err("SerializationError")

\* format!("alert_{}", millis) and format!("metric_{}", millis)
key(prefix, millis) == [prefix |-> prefix, millis |-> millis]

\* the byte order of two keys; the millisecond counts have the same number
\* of digits
key_lt(a, b) ==
    \/ a.prefix = "alert_" /\ b.prefix = "metric_"
    \/ a.prefix = b.prefix /\ a.millis < b.millis

\* db.insert(key, value): a value already under the key is replaced
insert(d, k, v) == (k :> v) @@ d

\* db.iter(): the values in the byte order of their keys
RECURSIVE iter_keys(_, _)
iter_keys(d, ks) ==
    IF ks = {} THEN <<>>
    ELSE LET k == CHOOSE x \in ks : \A y \in ks \ {x} : key_lt(x, y)
         IN  <<d[k]>> \o iter_keys(d, ks \ {k})

iter(d) == iter_keys(d, DOMAIN d)

\* for entry in db.iter() { let x: type = from_slice(&value)?; out.push(x) }
RECURSIVE collect(_, _, _)
collect(type, values, out) ==
    IF values = <<>> THEN Ok(out)
    ELSE LET r == from_slice(type, Head(values))
         IN  IF r.ok THEN collect(type, Tail(values), Append(out, r.value))
             ELSE r

\* AnalyticsRepository::store_trends, now the reading of Utc::now()
store_trends(d, t, now) == insert(d, key("alert_", now), to_vec_trends(t))

\* AnalyticsRepository::store_alerts, times[i] the reading of Utc::now() for
\* the i-th alert of the slice
RECURSIVE store_alerts(_, _, _)
store_alerts(d, as, times) ==
    IF as = <<>> THEN d
    ELSE store_alerts(insert(d, key("alert_", Head(times)), to_vec_alert(Head(as))),
                      Tail(as), Tail(times))

\* AnalyticsRepository::get_alerts and AnalyticsRepository::get_trends
repository_get_alerts(d) == collect("Alert", iter(d), <<>>)

repository_get_trends(d) == collect("ExtractionTrends", iter(d), <<>>)

\* validate without its check of time_seconds
validate_no_time(self) ==
    IF ~Contains(F(90), F(96), self.temperature)
    THEN Err(ApiError("Temperature must be between 90.0 and 96.0", 400))
    ELSE IF ~Contains(F(8), F(10), self.pressure)
    THEN Err(ApiError("Pressure must be between 8.0 and 10.0", 400))
    ELSE Ok(<<>>)

\* ExtractionParams::validate
validate(self) ==
    IF ~Contains(F(90), F(96), self.temperature)
    THEN Err(ApiError("Temperature must be between 90.0 and 96.0", 400))
    ELSE IF ~Contains(F(8), F(10), self.pressure)
    THEN Err(ApiError("Pressure must be between 8.0 and 10.0", 400))
    ELSE IF ~(self.time_seconds >= 20 /\ self.time_seconds <= 30)
    THEN Err(ApiError("Time must be between 20 and 30 seconds", 400))
    ELSE Ok(<<>>)

\* the query of a start_extraction request; no beans are named
ExtractionParams(temperature, pressure, time_seconds) ==
    [temperature |-> temperature, pressure |-> pressure, time_seconds |-> time_seconds,
     coffee_type |-> <<>>, roast_level |-> <<>>, grind_size |-> <<>>]

\* the requests made: one acceptable, and one wrong in each parameter
ParamsGrid ==
    {ExtractionParams(F(92), F(9), 25),
     ExtractionParams(F(88), F(9), 25),
     ExtractionParams(NaN, F(9), 25),
     ExtractionParams(F(92), F(12), 25),
     ExtractionParams(F(92), F(9), 35)}

\* the slice handed to store_alerts: the two alerts of a reading that is too
\* hot and under too much pressure
AlertBatches ==
    {generate_alerts(AlertGenerator_new,
                     ExtractionMetrics(0, F(100), F(12), 25, "Arabica", "Medium", "Medium", F(1)),
                     <<1, 1, 2>>, 0)}

\* the trends handed to store_trends: of no reading and of one perfect reading
TrendsGrid ==
    {calculate(<<>>, "Daily"),
     calculate(<<simulate_extraction(0, <<F(92)>>, <<F(9)>>, <<25>>, <<>>, <<>>, <<>>)>>,
               "Daily")}

\* the readings of Utc::now() during n inserts that start at `from`
ClockReadings(n, from) ==
    {ts \in [1..n -> from..MaxTimestamp] : \A i \in 1..(n - 1) : ts[i] <= ts[i + 1]}

engineVars == <<rules, metrics, origin, score, good, recommendations, alerts, history, trends>>

\* a millisecond passes between two calls
Tick ==
    /\ clock < MaxTimestamp
    /\ clock' = clock + 1
    /\ UNCHANGED <<engineVars, stage, db, request, response>>

\* POST /start: the failures of sled itself are left out; parameters that
\* pass validate score at most 100, so the simulation does not abort here
StartExtraction ==
    /\ \E params \in ParamsGrid :
        LET v == validate(params)
            m == simulate_extraction(clock \div 1000, <<params.temperature>>,
                                     <<params.pressure>>, <<params.time_seconds>>,
                                     params.coffee_type, params.roast_level,
                                     params.grind_size)
        IN  /\ request' = [op |-> "start_extraction", params |-> params]
            /\ IF v.ok
               THEN /\ db' = insert(db, key("metric_", clock), to_vec_metrics(m))
                    /\ response' = [status |-> 200, body |-> m]
               ELSE /\ db' = db
                    /\ response' = v.error
    /\ stage' = "start_extraction"
    /\ UNCHANGED <<engineVars, clock>>

\* repository.store_alerts(&batch); time may pass between the inserts
StoreAlerts ==
    /\ \E batch \in AlertBatches : \E times \in ClockReadings(Len(batch), clock) :
        /\ db' = store_alerts(db, batch, times)
        /\ clock' = times[Len(batch)]
        /\ request' = [op |-> "store_alerts", alerts |-> batch]
    /\ response' = Ok(<<>>)
    /\ stage' = "store_alerts"
    /\ UNCHANGED engineVars

\* repository.store_trends(&t)
StoreTrends ==
    /\ \E t \in TrendsGrid :
        /\ db' = store_trends(db, t, clock)
        /\ request' = [op |-> "store_trends", trends |-> t]
    /\ response' = Ok(<<>>)
    /\ stage' = "store_trends"
    /\ UNCHANGED <<engineVars, clock>>

\* GET /alerts
GetAlerts ==
    /\ request' = [op |-> "get_alerts"]
    /\ response' = LET r == repository_get_alerts(db)
                   IN  IF r.ok THEN [status |-> 200, body |-> r.value]
                       ELSE ApiError("Error fetching alerts", 500)
    /\ stage' = "get_alerts"
    /\ UNCHANGED <<engineVars, db, clock>>

\* GET /trends
GetTrends ==
    /\ request' = [op |-> "get_trends"]
    /\ response' = LET r == repository_get_trends(db)
                   IN  IF r.ok THEN [status |-> 200, body |-> r.value]
                       ELSE ApiError("Error fetching trends", 500)
    /\ stage' = "get_trends"
    /\ UNCHANGED <<engineVars, db, clock>>

\* GET /metrics
GetMetrics ==
    /\ request' = [op |-> "get_metrics"]
    /\ response' = LET r == collect("ExtractionMetrics", iter(db), <<>>)
                   IN  IF ~r.ok THEN ApiError("Failed to deserialize metric", 500)
                       ELSE IF r.value = <<>> THEN ApiError("No metrics available", 404)
                       ELSE [status |-> 200, body |-> r.value]
    /\ stage' = "get_metrics"
    /\ UNCHANGED <<engineVars, db, clock>>

\* the calls on the shared store, in any order
StoreNext ==
    \/ Tick
    \/ StartExtraction
    \/ StoreAlerts
    \/ StoreTrends
    \/ GetAlerts
    \/ GetTrends
    \/ GetMetrics

StoreSpec == Init /\ [][StoreNext]_vars

(* ------------------------------ claims --------------------------------- *)

\* the ranges of the claims, written out
TempInRange(m) == FLe(F(90), m.temperature) /\ FLe(m.temperature, F(96))

PressInRange(m) == FLe(F(8), m.pressure) /\ FLe(m.pressure, F(10))

TimeInRange(m) == 20 <= m.time_seconds /\ m.time_seconds <= 30

AllInRange(m) == TempInRange(m) /\ PressInRange(m) /\ TimeInRange(m)

\* C1: the record returned by simulate_extraction has result "Perfect
\* Extraction" and is_perfect() exactly when temperature is in [90, 96],
\* pressure in [8, 10] and time_seconds in [20, 30]; otherwise its result is
\* "Suboptimal Extraction".
C1_PerfectIffAllInRange ==
    origin = "simulate_extraction" =>
        /\ (metrics.result = "Perfect Extraction") <=> AllInRange(metrics)
        /\ is_perfect(metrics) <=> AllInRange(metrics)
        /\ ~AllInRange(metrics) => metrics.result = "Suboptimal Extraction"

\* a simulated reading on the upper end of all three ranges is perfect
C1_Witness ==
    /\ origin = "simulate_extraction"
    /\ metrics.temperature = F(96)
    /\ metrics.pressure = F(10)
    /\ metrics.time_seconds = 30
    /\ metrics.result = "Perfect Extraction"

\* C2: the record returned by simulate_extraction carries the quality score
\* and the recommendations computed from its own fields.
C2_DerivedFieldsConsistent ==
    origin = "simulate_extraction" =>
        /\ metrics.quality_score = calculate_quality_score(metrics, FALSE)
        /\ metrics.recommendations = generate_recommendations(metrics)

\* C3: calculate_quality_score of temperature 92, pressure 9, time 25,
\* Arabica, Medium roast, Medium grind is 95, the grind bonus not being added.
C3_ScoreIs95 ==
    (/\ stage = "scored"
     /\ metrics.temperature = F(92)
     /\ metrics.pressure = F(9)
     /\ metrics.time_seconds = 25
     /\ metrics.coffee_type = "Arabica"
     /\ metrics.roast_level = "Medium"
     /\ metrics.grind_size = "Medium")
        => score = <<95>>

\* C4: generate_alerts on a reading made by simulate_extraction with
\* temperature in [90, 96] and pressure in [8, 10] returns no alert.
C4_NominalReadingNoAlert ==
    (/\ stage = "alerted"
     /\ origin = "simulate_extraction"
     /\ TempInRange(metrics)
     /\ PressInRange(metrics))
        => alerts = <<>>

\* the severity and category of each alert, in order
Kinds(as) == [i \in 1..Len(as) |-> <<as[i].severity, as[i].category>>]

\* the alerts the three rules of C5 call for, in registration order
ExpectedKinds(m) ==
    (IF FLt(m.perfect_extraction_rate, Rat(4, 10))
     THEN <<(<<"Warning", "ExtractionQuality">>)>> ELSE <<>>)
    \o (IF FLt(m.temperature, F(90)) \/ FLt(F(96), m.temperature)
        THEN <<(<<"Critical", "ParameterDeviation">>)>> ELSE <<>>)
    \o (IF FLt(m.pressure, F(8)) \/ FLt(F(10), m.pressure)
        THEN <<(<<"Warning", "ParameterDeviation">>)>> ELSE <<>>)

\* C5: generate_alerts returns, in registration order, exactly one alert for
\* each rule whose condition holds: Warning/ExtractionQuality iff the rate is
\* below 0.4, Critical/ParameterDeviation iff the temperature is outside
\* [90, 96], Warning/ParameterDeviation iff the pressure is outside [8, 10];
\* temperature 100 with pressure 9 gives one Critical and no Warning
\* ParameterDeviation alert.
C5_AlertsPerRule ==
    stage = "alerted" =>
        /\ Kinds(alerts) = ExpectedKinds(metrics)
        /\ (metrics.temperature = F(100) /\ metrics.pressure = F(9)) =>
            /\ Cardinality({i \in 1..Len(alerts) :
                    Kinds(alerts)[i] = <<"Critical", "ParameterDeviation">>}) = 1
            /\ \A i \in 1..Len(alerts) :
                    Kinds(alerts)[i] # <<"Warning", "ParameterDeviation">>

\* temperature 100 and pressure 9 with a high rate raise the Critical alert alone
C5_Witness ==
    /\ stage = "alerted"
    /\ metrics.temperature = F(100)
    /\ metrics.pressure = F(9)
    /\ metrics.perfect_extraction_rate = F(1)
    /\ Kinds(alerts) = <<(<<"Critical", "ParameterDeviation">>)>>

\* C6: calculate on an empty history returns rate 0, zero averages,
\* direction Declining and an all-zero distribution.
C6_EmptyHistoryDefined ==
    (stage = "calculated" /\ history = <<>>) =>
        /\ trends.perfect_extraction_rate = F(0)
        /\ trends.avg_metrics =
               [temperature |-> F(0), pressure |-> F(0), extraction_time |-> F(0)]
        /\ trends.trend_direction = "Declining"
        /\ trends.quality_distribution = [perfect |-> 0, good |-> 0, suboptimal |-> 0]

\* the readings of a history whose three parameters are all in range
PerfectReadings(h) == {i \in 1..Len(h) : AllInRange(h[i])}

\* the readings of a history whose temperature and pressure are in range
GoodReadings(h) == {i \in 1..Len(h) : TempInRange(h[i]) /\ PressInRange(h[i])}

\* C7: for a non-empty history the rate is 100 * perfect readings / readings,
\* between 0 and 100, and the direction is Improving iff rate > 75, Stable iff
\* 50 < rate <= 75, Declining iff rate <= 50.
C7_RateAndDirection ==
    (stage = "calculated" /\ history # <<>>) =>
        LET rate == trends.perfect_extraction_rate
        IN  /\ rate = Rat(100 * Cardinality(PerfectReadings(history)), Len(history))
            /\ FLe(F(0), rate) /\ FLe(rate, F(100))
            /\ (trends.trend_direction = "Improving") <=> FLt(F(75), rate)
            /\ (trends.trend_direction = "Stable") <=> (FLt(F(50), rate) /\ FLe(rate, F(75)))
            /\ (trends.trend_direction = "Declining") <=> FLe(rate, F(50))

\* three perfect readings out of four give the rate 75, which is Stable
C7_Witness ==
    /\ stage = "calculated"
    /\ Len(history) = 4
    /\ trends.perfect_extraction_rate = F(75)
    /\ trends.trend_direction = "Stable"

\* C8: the three buckets of the quality distribution partition the history:
\* perfect + good + suboptimal is the number of readings.
C8_BucketsPartition ==
    stage = "calculated" =>
        LET q == trends.quality_distribution
        IN  q.perfect + q.good + q.suboptimal = Len(history)

\* C9: perfect counts the perfect readings, good the good ones (the perfect
\* ones among them), suboptimal the rest: perfect <= good and good +
\* suboptimal is the number of readings.
C9_GoodIncludesPerfect ==
    stage = "calculated" =>
        LET q == trends.quality_distribution
        IN  /\ q.perfect = Cardinality(PerfectReadings(history))
            /\ q.good = Cardinality(GoodReadings(history))
            /\ q.suboptimal = Len(history) - Cardinality(GoodReadings(history))
            /\ q.perfect <= q.good
            /\ q.good + q.suboptimal = Len(history)

\* a history with a perfect, a good and a suboptimal reading
C9_Witness ==
    /\ stage = "calculated"
    /\ trends.quality_distribution = [perfect |-> 1, good |-> 2, suboptimal |-> 1]

\* C10: is_good() holds exactly when temperature is in [90, 96] and pressure
\* in [8, 10], whatever time_seconds; hence is_perfect() implies is_good().
C10_GoodIffTempAndPress ==
    stage = "classified" =>
        /\ good <=> (TempInRange(metrics) /\ PressInRange(metrics))
        /\ is_perfect(metrics) => good

\* a reading with temperature and pressure in range and a time out of range is good
C10_Witness ==
    /\ stage = "classified"
    /\ good
    /\ metrics.temperature = F(90)
    /\ metrics.pressure = F(10)
    /\ metrics.time_seconds = 35

\* the sum of a sequence of f64
RECURSIVE SeqSum(_)
SeqSum(q) == IF q = <<>> THEN F(0) ELSE FAdd(q[1], SeqSum(Tail(q)))

\* the arithmetic mean of a non-empty sequence of f64
Mean(q) == FDiv(SeqSum(q), F(Len(q)))

\* C11: for a non-empty history of simulated readings, avg_metrics holds the
\* means of the readings' temperature, pressure and extraction time, the
\* extraction time of a reading being its duration time_seconds.
C11_AveragesAreMeans ==
    (stage = "calculated" /\ history # <<>>) =>
        /\ trends.avg_metrics.temperature =
               Mean([i \in 1..Len(history) |-> history[i].temperature])
        /\ trends.avg_metrics.pressure =
               Mean([i \in 1..Len(history) |-> history[i].pressure])
        /\ trends.avg_metrics.extraction_time =
               Mean([i \in 1..Len(history) |-> F(history[i].time_seconds)])

\* the strings the first four checks of C12 call for, in order
ExpectedParameterAdvice(m) ==
    (IF FLt(m.temperature, F(90)) THEN <<"Increase temperature to 90 degrees">>
     ELSE IF FLt(F(96), m.temperature) THEN <<"Decrease temperature to 96 degrees">>
     ELSE <<>>)
    \o (IF FLt(m.pressure, F(8)) THEN <<"Increase pressure to 8 psi">>
        ELSE IF FLt(F(10), m.pressure) THEN <<"Decrease pressure to 10 psi">>
        ELSE <<>>)
    \o (IF m.time_seconds < 20 THEN <<"Increase extraction time to 20 seconds">>
        ELSE IF m.time_seconds > 30 THEN <<"Decrease extraction time to 30 seconds">>
        ELSE <<>>)
    \o (IF m.grind_size = "Fine" /\ m.time_seconds > 30
        THEN <<"Consider using a coarser grind size for better extraction">>
        ELSE IF m.grind_size = "Coarse" /\ m.time_seconds < 20
        THEN <<"Consider using a finer grind size for better extraction">>
        ELSE <<>>)

\* the (coffee_type, roast_level) pairs that have a suggestion and a bonus
CoffeeRoastMatch(m) ==
    <<m.coffee_type, m.roast_level>> \in
        {<<"Arabica", "Medium">>, <<"Robusta", "Dark">>,
         <<"Blend", "Medium">>, <<"SingleOrigin", "Light">>}

GrindSuggestions ==
    {"Consider using a coarser grind size for better extraction",
     "Consider using a finer grind size for better extraction"}

\* C12: generate_recommendations returns at most five strings in the order
\* temperature, pressure, time, grind/time, coffee/roast: an increase or
\* decrease string per dimension iff the value is below or above its range,
\* the coarser-grind string iff Fine and time > 30, the finer-grind string iff
\* Coarse and time < 20, then at most one coffee/roast string; 88 / 7 / 35 /
\* Coarse gives the three parameter strings and no grind suggestion.
C12_RecommendationOrder ==
    stage = "recommended" =>
        LET r == recommendations[1]
            e == ExpectedParameterAdvice(metrics)
        IN  /\ Len(r) <= 5
            /\ Len(r) >= Len(e)
            /\ SubSeq(r, 1, Len(e)) = e
            /\ Len(r) - Len(e) = (IF CoffeeRoastMatch(metrics) THEN 1 ELSE 0)
            /\ (/\ metrics.temperature = F(88)
                /\ metrics.pressure = F(7)
                /\ metrics.time_seconds = 35
                /\ metrics.grind_size = "Coarse") =>
                   /\ SubSeq(r, 1, 3) = <<"Increase temperature to 90 degrees",
                                          "Increase pressure to 8 psi",
                                          "Decrease extraction time to 30 seconds">>
                   /\ \A i \in 1..Len(r) : r[i] \notin GrindSuggestions

\* the reading of the unit test with all five checks firing in order
C12_Witness ==
    /\ stage = "recommended"
    /\ metrics.temperature = F(88)
    /\ metrics.pressure = F(7)
    /\ metrics.time_seconds = 35
    /\ metrics.grind_size = "Fine"
    /\ metrics.coffee_type = "Robusta"
    /\ metrics.roast_level = "Dark"
    /\ Len(recommendations[1]) = 5

\* C13: the operations return a value without aborting for every input, and
\* the sum of the dimension scores and the bonuses never overflows its u8.
C13_OperationsTotal ==
    /\ stage # "panicked"
    /\ stage \in {"simulated", "scored"} => final_score(metrics) <= 255

\* truncation toward zero of a finite f64, keeping its sign
Trunc(x) ==
    IF IsNaN(x) \/ x.d = 0 THEN 0
    ELSE IF x.n < 0 THEN -((-x.n) \div x.d)
    ELSE x.n \div x.d

\* the points of a dimension as C15 states them: signed and unclamped
SignedPoints(min, max, value) ==
    IF FLe(min, value) /\ FLe(value, max) THEN 30
    ELSE IF FLt(value, min) THEN Trunc(FMul(F(30), FSub(F(1), FDiv(value, min))))
    ELSE Trunc(FMul(F(30), FDiv(FSub(max, value), FSub(max, min))))

GrindTimeMatch(m) ==
    \/ m.grind_size = "Coarse" /\ m.time_seconds < 20
    \/ m.grind_size = "Medium" /\ m.time_seconds >= 20 /\ m.time_seconds <= 30
    \/ m.grind_size = "Fine" /\ m.time_seconds > 30

BonusPoints(m) ==
    (IF CoffeeRoastMatch(m) THEN 5 ELSE 0) + (IF GrindTimeMatch(m) THEN 5 ELSE 0)

\* C15 as stated: the score is the signed, unclamped sum, a value above its
\* maximum contributing the negative 30 * (max - value) / (max - min).
C15_SignedUnclamped ==
    stage = "scored" =>
        score[1] = SignedPoints(F(90), F(96), metrics.temperature)
                   + SignedPoints(F(8), F(10), metrics.pressure)
                   + SignedPoints(F(20), F(30), F(metrics.time_seconds))
                   + BonusPoints(metrics)

\* C15 as amended: the score is an unsigned value; a value above its maximum
\* contributes 0 points, so the score is never below 0, and with all three
\* values above their maxima it is the bonuses alone.
C15_AboveMaxScoresZero ==
    stage = "scored" =>
        /\ score[1] >= 0
        /\ FLt(F(96), metrics.temperature) => temp_score(metrics) = 0
        /\ FLt(F(10), metrics.pressure) => press_score(metrics) = 0
        /\ metrics.time_seconds > 30 => time_score(metrics) = 0
        /\ (/\ FLt(F(96), metrics.temperature)
            /\ FLt(F(10), metrics.pressure)
            /\ metrics.time_seconds > 30) => score[1] = BonusPoints(metrics)

\* the default reading, far above all three maxima, scores its roast bonus alone
C15_Witness ==
    /\ stage = "scored"
    /\ metrics.temperature = Rat(986, 10)
    /\ metrics.pressure = Rat(101325, 100)
    /\ metrics.time_seconds = 60
    /\ metrics.grind_size = "Medium"
    /\ score = <<5>>

\* C16: below its minimum a value earns fewer points the closer it is to 0:
\* for v1 < v2 < min the points for v1 are at most those for v2, and both
\* are at most 30.
C16_PenaltyGrowsTowardZero ==
    stage = "scored" =>
        /\ FLt(metrics.temperature, F(90)) =>
            /\ temp_score(metrics) <= 30
            /\ \A v2 \in TempGrid :
                (FLt(metrics.temperature, v2) /\ FLt(v2, F(90))) =>
                    temp_score(metrics) <= temp_score([metrics EXCEPT !.temperature = v2])
        /\ FLt(metrics.pressure, F(8)) =>
            /\ press_score(metrics) <= 30
            /\ \A v2 \in PressGrid :
                (FLt(metrics.pressure, v2) /\ FLt(v2, F(8))) =>
                    press_score(metrics) <= press_score([metrics EXCEPT !.pressure = v2])
        /\ metrics.time_seconds < 20 =>
            /\ time_score(metrics) <= 30
            /\ \A v2 \in TimeGrid :
                (metrics.time_seconds < v2 /\ v2 < 20) =>
                    time_score(metrics) <= time_score([metrics EXCEPT !.time_seconds = v2])

\* C17: with temperature >= 0 and pressure >= 0 the score is between 0 and
\* 100: each dimension gives 0 to 30 points, each bonus at most 5, and 100 is
\* reached only with both bonuses.
C17_ScoreWithin0And100 ==
    (stage = "scored" /\ FLe(F(0), metrics.temperature) /\ FLe(F(0), metrics.pressure)) =>
        /\ score[1] >= 0 /\ score[1] <= 100
        /\ temp_score(metrics) \in 0..30
        /\ press_score(metrics) \in 0..30
        /\ time_score(metrics) \in 0..30
        /\ score[1] - (temp_score(metrics) + press_score(metrics) + time_score(metrics))
               = BonusPoints(metrics)
        /\ score[1] = 100 => (CoffeeRoastMatch(metrics) /\ GrindTimeMatch(metrics))

\* a perfect reading with both bonuses scores 100
C17_Witness ==
    /\ stage = "scored"
    /\ metrics.temperature = F(92)
    /\ metrics.pressure = F(9)
    /\ metrics.time_seconds = 25
    /\ score = <<100>>

\* the bodies of the values of one type in the store, in key order
RECURSIVE BodiesOf(_, _)
BodiesOf(values, type) ==
    IF values = <<>> THEN <<>>
    ELSE (IF Head(values).type = type THEN <<Head(values).body>> ELSE <<>>)
         \o BodiesOf(Tail(values), type)

\* C14: after store_alerts(alerts) has returned Ok, every alert of the slice
\* is in the store under a key of its own, whatever the clock readings.
C14_EveryAlertStored ==
    stage = "store_alerts" =>
        /\ response.ok
        /\ \A i \in 1..Len(request.alerts) :
            \E k \in DOMAIN db : db[k] = to_vec_alert(request.alerts[i])

\* C18: the three record types share the store without interfering:
\* get_alerts, get_trends and get_metrics succeed and return exactly the
\* stored records of their own type.
C18_TypesDoNotInterfere ==
    /\ stage = "get_alerts" =>
        /\ response.status = 200
        /\ response.body = BodiesOf(iter(db), "Alert")
    /\ stage = "get_trends" =>
        /\ response.status = 200
        /\ response.body = BodiesOf(iter(db), "ExtractionTrends")
    /\ (stage = "get_metrics" /\ BodiesOf(iter(db), "ExtractionMetrics") # <<>>) =>
        /\ response.status = 200
        /\ response.body = BodiesOf(iter(db), "ExtractionMetrics")

\* the three parameters of a request or a record are within the perfect ranges
ParamsInRange(p) ==
    /\ FLe(F(90), p.temperature) /\ FLe(p.temperature, F(96))
    /\ FLe(F(8), p.pressure) /\ FLe(p.pressure, F(10))
    /\ p.time_seconds >= 20 /\ p.time_seconds <= 30

\* C19: start_extraction answers a request with a parameter outside its range
\* with status 400 and leaves the store as it was; every metrics record in
\* the store has its three parameters in range and result "Perfect Extraction".
C19_RejectedOrPerfect ==
    [][/\ (stage' = "start_extraction" /\ ~ParamsInRange(request'.params)) =>
            (response'.status = 400 /\ db' = db)
       /\ \A k \in DOMAIN db' :
            db'[k].type = "ExtractionMetrics" =>
                /\ ParamsInRange(db'[k].body)
                /\ db'[k].body.result = "Perfect Extraction"]_vars

\* a request with too long a time is refused while an accepted record is stored
C19_Witness ==
    /\ stage = "start_extraction"
    /\ request.params.time_seconds = 35
    /\ response.status = 400
    /\ \E k \in DOMAIN db : db[k].type = "ExtractionMetrics"

====
